---- MODULE Spec2Model ----
(***************************************************************************)
(* resume-mate: the MasterProfile schema (core/models.py), the language-   *)
(* model agent (ai/agent.py), the YAML store (utils/file_io.py) and the    *)
(* command handlers (main.py), as a state machine over the file system.    *)
(*                                                                         *)
(* Encoding of values.  A JSON/YAML mapping is a TLA+ function whose       *)
(* domain is a set of strings.  JSON null and a missing key are the same   *)
(* thing here: a field whose value is None is a key that is not in the     *)
(* domain (pydantic treats null and missing alike for Optional fields, and *)
(* rejects both for required ones).  Lists are sequences.                  *)
(***************************************************************************)
EXTENDS Integers, Sequences, FiniteSets, TLC

VARIABLES
    files,    \* the file system: path -> [kind, data]
    before,   \* the file system when the last command started
    cmd,      \* the last command line: [name, ...arguments]
    world,    \* what the outside world did during the last command
    exit,     \* the exit code of the last command
    trace,    \* the effects of the last command, in program order
    mem,      \* the handler's local objects when the last command ended
    ncmds     \* number of commands run so far

vars == <<files, before, cmd, world, exit, trace, mem, ncmds>>

----------------------------------------------------------------------------
(* Bounds of the model *)

MaxCommands == 1    \* commands run in one behaviour

----------------------------------------------------------------------------
(* core/models.py: the schema *)

F(name, alias, required, kind, cls) ==
    [name |-> name, alias |-> alias, required |-> required, kind |-> kind, cls |-> cls]

\* kind: "str" | "url" (HttpUrl) | "liststr" (list[str]) | "model" | "listmodel"
Schema ==
  [ cls \in { "Profile", "Location", "Basics", "WorkExperience", "Project",
              "Education", "Skill", "MasterProfile" } |->
    CASE cls = "Profile" ->
            { F("network", "network", TRUE, "str", ""),
              F("username", "username", TRUE, "str", ""),
              F("url", "url", FALSE, "url", "") }
      [] cls = "Location" ->
            { F("address", "address", FALSE, "str", ""),
              F("postal_code", "postalCode", FALSE, "str", ""),
              F("city", "city", TRUE, "str", ""),
              F("country_code", "countryCode", FALSE, "str", ""),
              F("region", "region", FALSE, "str", "") }
      [] cls = "Basics" ->
            { F("name", "name", TRUE, "str", ""),
              F("label", "label", FALSE, "str", ""),
              F("email", "email", TRUE, "str", ""),
              F("phone", "phone", FALSE, "str", ""),
              F("url", "url", FALSE, "url", ""),
              F("summary", "summary", FALSE, "str", ""),
              F("location", "location", FALSE, "model", "Location"),
              F("profiles", "profiles", FALSE, "listmodel", "Profile") }
      [] cls = "WorkExperience" ->
            { F("name", "name", TRUE, "str", ""),
              F("position", "position", TRUE, "str", ""),
              F("url", "url", FALSE, "url", ""),
              F("start_date", "startDate", TRUE, "str", ""),
              F("end_date", "endDate", FALSE, "str", ""),
              F("summary", "summary", FALSE, "str", ""),
              F("highlights", "highlights", FALSE, "liststr", ""),
              F("tech_stack", "techStack", FALSE, "liststr", "") }
      [] cls = "Project" ->
            { F("name", "name", TRUE, "str", ""),
              F("description", "description", FALSE, "str", ""),
              F("highlights", "highlights", FALSE, "liststr", ""),
              F("tech_stack", "techStack", FALSE, "liststr", ""),
              F("url", "url", FALSE, "url", ""),
              F("start_date", "startDate", FALSE, "str", ""),
              F("end_date", "endDate", FALSE, "str", "") }
      [] cls = "Education" ->
            { F("institution", "institution", TRUE, "str", ""),
              F("url", "url", FALSE, "url", ""),
              F("area", "area", TRUE, "str", ""),
              F("study_type", "studyType", TRUE, "str", ""),
              F("start_date", "startDate", TRUE, "str", ""),
              F("end_date", "endDate", FALSE, "str", ""),
              F("score", "score", FALSE, "str", ""),
              F("courses", "courses", FALSE, "liststr", "") }
      [] cls = "Skill" ->
            { F("name", "name", TRUE, "str", ""),
              F("level", "level", FALSE, "str", ""),
              F("keywords", "keywords", FALSE, "liststr", "") }
      [] cls = "MasterProfile" ->
            { F("basics", "basics", TRUE, "model", "Basics"),
              F("work", "work", FALSE, "listmodel", "WorkExperience"),
              F("projects", "projects", FALSE, "listmodel", "Project"),
              F("education", "education", FALSE, "listmodel", "Education"),
              F("skills", "skills", FALSE, "listmodel", "Skill") } ]

\* The fields a class declares.
Fields(cls) == Schema[cls]

\* BaseSchema: populate_by_name=True, so a field is read from its alias or,
\* failing that, from its own name; keys that name no field are ignored.
Present(f, data) == f.alias \in DOMAIN data \/ f.name \in DOMAIN data

Lookup(f, data) == IF f.alias \in DOMAIN data THEN data[f.alias] ELSE data[f.name]

\* The strings pydantic's HttpUrl accepts (an http/https URL with a host).
HttpUrls == {"https://acme.example/", "https://acme.example"}

IsHttpUrl(s) == s \in HttpUrls

\* HttpUrl(s): the validated value is a Url object, not a str; an empty path
\* is normalised to "/".
HttpUrl(s) == [url |-> IF s = "https://acme.example" THEN "https://acme.example/" ELSE s]

\* mode="json" renders a Url object as its string.
UrlStr(u) == u.url

\* Mutant: extra="forbid", every key that names no field is an error.
ExtraKeys_Forbid(cls, data) ==
    DOMAIN data \ ({ f.alias : f \in Fields(cls) } \cup { f.name : f \in Fields(cls) })

\* model_config sets populate_by_name only, so `extra` keeps pydantic's
\* default "ignore": a key that names no field raises nothing.
ExtraKeys(cls, data) == {}

\* Mutant: validation stops at the first error.
Report_FirstOnly(errors) == IF errors = {} THEN {} ELSE { CHOOSE e \in errors : TRUE }

\* pydantic validates every field and raises one ValidationError that lists
\* all the errors it collected.
Report(errors) == errors

IdxStr(i) == CASE i = 1 -> "0" [] i = 2 -> "1" [] i = 3 -> "2" [] i = 4 -> "3"
               [] OTHER -> "n"

RECURSIVE Violations(_, _)
\* The locations pydantic's ValidationError lists when cls(**data) is refused;
\* the empty set when construction succeeds.
Violations(cls, data) ==
  Report(ExtraKeys(cls, data) \cup
    UNION { IF ~Present(f, data)
              THEN (IF f.required THEN {f.alias} ELSE {})
              ELSE LET v == Lookup(f, data) IN
                   CASE f.kind = "url" -> IF IsHttpUrl(v) THEN {} ELSE {f.alias}
                     [] f.kind = "model" ->
                          { f.alias \o "." \o e : e \in Violations(f.cls, v) }
                     [] f.kind = "listmodel" ->
                          UNION { { f.alias \o "." \o IdxStr(i) \o "." \o e :
                                      e \in Violations(f.cls, v[i]) } : i \in DOMAIN v }
                     [] OTHER -> {}
          : f \in Fields(cls) })

RECURSIVE Construct(_, _)
\* cls(**data) for data without violations: the typed value, by field name.
\* List fields default to the empty list, other absent fields stay None.
Construct(cls, data) ==
    LET fs == { f \in Fields(cls) :
                  Present(f, data) \/ f.kind \in {"liststr", "listmodel"} }
    IN [ n \in { f.name : f \in fs } |->
           LET f == CHOOSE g \in fs : g.name = n IN
           IF ~Present(f, data) THEN <<>>
           ELSE LET v == Lookup(f, data) IN
                CASE f.kind = "model" -> Construct(f.cls, v)
                  [] f.kind = "listmodel" ->
                       [ i \in DOMAIN v |-> Construct(f.cls, v[i]) ]
                  [] f.kind = "url" -> HttpUrl(v)
                  [] OTHER -> v ]

RECURSIVE model_dump(_, _)
\* obj.model_dump(mode="json", exclude_none=True, by_alias=True)
model_dump(cls, obj) ==
    LET fs == { f \in Fields(cls) : f.name \in DOMAIN obj }
    IN [ a \in { f.alias : f \in fs } |->
           LET f == CHOOSE g \in fs : g.alias = a IN
           LET v == obj[f.name] IN
           CASE f.kind = "model" -> model_dump(f.cls, v)
             [] f.kind = "listmodel" ->
                  [ i \in DOMAIN v |-> model_dump(f.cls, v[i]) ]
             [] f.kind = "url" -> UrlStr(v)
             [] OTHER -> v ]

----------------------------------------------------------------------------
(* The values the environment can supply: what the language model answers   *)
(* and what is on disk.                                                     *)

BasicsJane   == [name |-> "Jane Doe", email |-> "jane@x.com"]
BasicsNoMail == [name |-> "Jane Doe"]
BasicsBad    == [name |-> "", email |-> "not-an-email"]

WorkAcme ==
    [name |-> "Acme", position |-> "Eng", startDate |-> "2019-01",
     highlights |-> <<"Shipped X">>, techStack |-> <<"Python">>]
WorkAcmeMore ==
    [name |-> "Acme", position |-> "Eng", startDate |-> "2019-01",
     highlights |-> <<"Shipped X", "Led team of 4">>, techStack |-> <<"python", "AWS">>]
WorkGlobex ==
    [name |-> "Globex", position |-> "Dev", startDate |-> "Jan 2021", endDate |-> "Present"]
WorkNoDates == [name |-> "Initech", position |-> "Eng"]

ProjectMate  == [name |-> "Resume Mate", techStack |-> <<"Python">>]
ProjectNoName == [description |-> "A side project"]

EduTech ==
    [institution |-> "University of Tech", area |-> "CS", studyType |-> "Bachelor",
     startDate |-> "2015-09", courses |-> <<"Algorithms">>]
EduNoArea == [institution |-> "University of Tech"]

SkillPython == [name |-> "Python", keywords |-> <<"Django">>]
SkillNoName == [level |-> "Expert"]
SkillExtra  == [name |-> "Go", years |-> "5"]

ProfileA ==
    [basics |-> BasicsJane, work |-> <<WorkAcme>>, education |-> <<EduTech>>,
     skills |-> <<SkillPython>>]

\* A string holding the character U+0085 (NEL, "next line"), written <NEL>.
SummaryNel == "Builds<NEL>tools"

\* Field names instead of aliases, a URL without a path, keys the schema
\* does not define, a string with a NEL in it.
ProfileRich ==
    [basics |-> [name |-> "Jane Doe", email |-> "jane@x.com", summary |-> SummaryNel,
                 url |-> "https://acme.example",
                 location |-> [city |-> "Oslo", postal_code |-> "0150", planet |-> "Earth"],
                 profiles |-> << [network |-> "GitHub", username |-> "jane",
                                  url |-> "https://acme.example/"] >>],
     work |-> << [name |-> "Acme", position |-> "Eng", start_date |-> "2019-01",
                  end_date |-> "2020-01", nickname |-> "ignored"] >>,
     extra |-> "ignored"]

\* JSON objects the model may return where a MasterProfile is asked for.
ProfilePayloads ==
    { ProfileA,
      [ProfileA EXCEPT !.work = <<WorkAcmeMore, WorkGlobex>>],  \* a faithful merge
      [ProfileA EXCEPT !.work = <<WorkGlobex, WorkAcme>>],      \* reordered
      [ProfileA EXCEPT !.work = <<WorkAcme, WorkAcme>>],        \* duplicated
      [basics |-> BasicsJane, work |-> <<WorkGlobex>>],         \* history dropped
      ProfileRich,
      [basics |-> BasicsBad, work |-> <<WorkAcme>>],            \* empty name, no "@"
      [basics |-> BasicsNoMail, work |-> <<WorkAcme>>],         \* invalid
      [basics |-> BasicsJane, work |-> <<WorkNoDates>>,         \* invalid, four fields
       education |-> <<EduNoArea>>] }

\* JSON objects the model may return where one entity is asked for.
EntityPayloads(entity_type) ==
    CASE entity_type = "work"      -> {WorkAcme, WorkGlobex, WorkNoDates}
      [] entity_type = "project"   -> {ProjectMate, ProjectNoName}
      [] entity_type = "education" -> {EduTech, EduNoArea}
      [] entity_type = "skill"     -> {SkillPython, SkillNoName, SkillExtra}
      [] OTHER                     -> {WorkAcme}

\* The job-description analysis, a free-form mapping.
AnalysisPayloads == { [keywords |-> <<"Python">>, role_mission |-> "Build"] }

\* What litellm.completion can come back with.
Failures == {"raise", "no_choices", "no_content", "not_json"}

J(payload) == [kind |-> "json", payload |-> payload]

Responses(payloads) ==
    { [kind |-> k, payload |-> <<>>] : k \in Failures \cup {"json_not_object"} }
        \cup { J(p) : p \in payloads }

----------------------------------------------------------------------------
(* ai/agent.py *)

\* Mutant: a None content is passed on as an empty JSON object.
_get_completion_NoContentAsEmpty(resp) ==
    IF resp.kind \in Failures \ {"no_content"}
      THEN [raised |-> TRUE, value |-> <<>>, is_object |-> FALSE]
      ELSE [raised |-> FALSE, value |-> resp.payload,
            is_object |-> resp.kind \in {"json", "no_content"}]

\* ResumeAgent._get_completion: any failure of the call, an empty choices
\* list, a None content and a json.loads error are all re-raised; there is
\* one litellm.completion call and no retry.
_get_completion(resp) ==
    IF resp.kind \in Failures
      THEN [raised |-> TRUE, value |-> <<>>, is_object |-> FALSE]
      ELSE [raised |-> FALSE, value |-> resp.payload, is_object |-> resp.kind = "json"]

\* cls(**data) on whatever json.loads returned: TypeError when data is not a
\* mapping, ValidationError when fields are missing or malformed.
Accepts(cls, is_object, data) == is_object /\ Violations(cls, data) = {}

NewObject(oid, val) == [oid |-> oid, val |-> val]
NoObject == [oid |-> 0, val |-> <<>>]

\* The outcome of an agent method: raised or returned value, and the number
\* of completion requests it sent.
\* locs: the locations str(e) lists when the error is a ValidationError.
Raised(err, n) ==
    [raised |-> TRUE, err |-> err, value |-> NoObject, requests |-> n, locs |-> {}]
Returned(obj, n) ==
    [raised |-> FALSE, err |-> "", value |-> obj, requests |-> n, locs |-> {}]

ProfileFrom(completion, oid) ==
    IF completion.raised THEN Raised("generation", 1)
    ELSE IF ~completion.is_object THEN Raised("validation", 1)     \* TypeError
    ELSE IF ~Accepts("MasterProfile", completion.is_object, completion.value)
      THEN [Raised("validation", 1) EXCEPT
                !.locs = Violations("MasterProfile", completion.value)]
    ELSE Returned(NewObject(oid, Construct("MasterProfile", completion.value)), 1)

\* `if images:` picks the multimodal message form; None and [] are both the
\* text-only form.
Messages(images) == IF images # <<>> THEN "multimodal" ELSE "text"

bootstrap_profile(resp, images) ==
    [ result |-> ProfileFrom(_get_completion(resp), 1), messages |-> Messages(images) ]

\* Mutant: the merged fields are written into current_profile, which is returned.
merge_profile_InPlace(current_profile, resp, images) ==
    LET r == ProfileFrom(_get_completion(resp), current_profile.oid)
    IN [ result   |-> r,
         current  |-> IF r.raised THEN current_profile ELSE r.value,
         messages |-> Messages(images) ]

\* Mutant: a payload that does not validate degrades to the existing profile.
merge_profile_KeepOnInvalid(current_profile, resp, images) ==
    LET r == ProfileFrom(_get_completion(resp), current_profile.oid + 1)
    IN [ result   |-> IF r.raised /\ r.err = "validation"
                        THEN Returned(NewObject(current_profile.oid + 1, current_profile.val), 1)
                        ELSE r,
         current  |-> current_profile,
         messages |-> Messages(images) ]

\* merge_profile reads current_profile (model_dump for the prompt) and builds
\* the result from the completion alone; `current` is the argument object as
\* the call leaves it.
merge_profile(current_profile, resp, images) ==
    [ result   |-> ProfileFrom(_get_completion(resp), current_profile.oid + 1),
      current  |-> current_profile,
      messages |-> Messages(images) ]

\* Mutant: the tailored JSON is wrapped without being validated.
tailor_profile_Unvalidated(profile, resp) ==
    LET completion == _get_completion(resp) IN
    IF completion.raised THEN Raised("generation", 1)
    ELSE Returned(NewObject(profile.oid + 1,
                            Construct("MasterProfile", completion.value)), 1)

tailor_profile(profile, resp) == ProfileFrom(_get_completion(resp), profile.oid + 1)

\* analyze_job_description / suggest_improvements / extract_entity return the
\* parsed JSON as it is.
JsonFrom(completion) ==
    IF completion.raised THEN Raised("generation", 1)
    ELSE Returned([oid |-> 0, val |-> completion.value,
                   is_object |-> completion.is_object], 1)

analyze_job_description(resp) == JsonFrom(_get_completion(resp))

suggest_improvements(resp) == JsonFrom(_get_completion(resp))

EntityClass(entity_type) ==
    CASE entity_type = "work"      -> "WorkExperience"
      [] entity_type = "project"   -> "Project"
      [] entity_type = "education" -> "Education"
      [] entity_type = "skill"     -> "Skill"
      [] OTHER                     -> ""

\* Mutant: the type_map check is missing, the request is sent for any type.
extract_entity_AnyType(entity_type, resp) == JsonFrom(_get_completion(resp))

\* `if entity_type not in type_map: raise ValueError` comes before the prompt
\* is built and the request sent.
extract_entity(entity_type, resp) ==
    IF EntityClass(entity_type) = "" THEN Raised("unsupported", 0)
    ELSE JsonFrom(_get_completion(resp))

----------------------------------------------------------------------------
(* utils/file_io.py and the file system *)

Path(stem, suffix) == [stem |-> stem, suffix |-> suffix]
with_suffix(p, suffix) == [p EXCEPT !.suffix = suffix]
PathStr(p) == p.stem \o p.suffix

MasterPath   == Path("master-profile", ".yaml")
TailoredPdf  == Path("output/tailored_resume", ".pdf")
ResumePdf    == Path("output/resume", ".pdf")
PreviewHtml  == Path("output/preview", ".html")
PreviewCss   == Path("output/styles", ".css")

Paths ==
    { MasterPath, Path("master-profile", ".pdf"),
      TailoredPdf, with_suffix(TailoredPdf, ".yaml"), ResumePdf, PreviewHtml,
      PreviewCss }

Absent      == [kind |-> "absent", data |-> <<>>]
Yaml(data)  == [kind |-> "yaml", data |-> data]
Truncated   == [kind |-> "truncated", data |-> <<>>]
Bytes(kind) == [kind |-> kind, data |-> <<>>]

Exists(fs, p) == fs[p].kind # "absent"

\* yaml.safe_load(yaml.dump(s, allow_unicode=True)) for one string.  With
\* allow_unicode the emitter writes non-ASCII printable characters as they
\* are; U+0085 is a YAML line break, so it is written as a break inside a
\* quoted scalar and the loader folds the single break into a space.  Every
\* other string comes back as it was (quoted when it would read as a number,
\* a boolean or null).
safe_load_str(s) == IF s = SummaryNel THEN "Builds tools" ELSE s

RECURSIVE safe_load_dump(_, _)
\* yaml.safe_load of the text yaml.dump writes for data, a by-alias dump of cls.
safe_load_dump(cls, data) ==
    [ a \in DOMAIN data |->
        LET f == CHOOSE g \in Fields(cls) : g.alias = a IN
        CASE f.kind = "model" -> safe_load_dump(f.cls, data[a])
          [] f.kind = "listmodel" ->
               [ i \in DOMAIN data[a] |-> safe_load_dump(f.cls, data[a][i]) ]
          [] f.kind = "liststr" -> [ i \in DOMAIN data[a] |-> safe_load_str(data[a][i]) ]
          [] OTHER -> safe_load_str(data[a]) ]

\* write_yaml: open(path, "w") empties the file, then yaml.dump streams the
\* document into it.  io is what the operating system does: "ok", "open_fail"
\* (the open raises, nothing is touched) or "dump_fail" (a write raises after
\* the open; the file keeps whatever prefix was flushed).
IOOutcomes == {"ok", "open_fail", "dump_fail"}

write_yaml(fs, data, p, io) ==
    CASE io = "ok"        -> [fs EXCEPT ![p] = Yaml(safe_load_dump("MasterProfile", data))]
      [] io = "dump_fail" -> [fs EXCEPT ![p] = Truncated]
      [] OTHER            -> fs

\* Mutant: any file that parses as YAML loads, the schema is not applied.
LoadsProfile_AnyYaml(fs, p) == fs[p].kind = "yaml"

\* open + yaml.safe_load + MasterProfile(**data), as every command loads a
\* profile.  Only a YAML mapping without violations loads.
LoadsProfile(fs, p) ==
    fs[p].kind = "yaml" /\ Violations("MasterProfile", fs[p].data) = {}

LoadProfile(fs, p) == NewObject(1, Construct("MasterProfile", fs[p].data))

\* extract_text_from_file: by suffix; anything but .pdf/.docx/.txt/.md raises.
SupportedSuffixes == {".pdf", ".docx", ".txt", ".md"}

\* Mutant: a suffix the extractor does not know is read as plain text.
extract_text_from_file_AnyAsText(src) ==
    IF src.readable THEN "ok" ELSE "error"

extract_text_from_file(src) ==
    IF src.suffix \notin SupportedSuffixes THEN "unsupported"
    ELSE IF src.readable THEN "ok" ELSE "error"

----------------------------------------------------------------------------
(* main.py: what a handler leaves behind *)

Ev(ev, arg) == [ev |-> ev, arg |-> arg]

\* The state a handler ends in: file system, exit code, effects, locals.
R(fs, code, tr, m) == [files |-> fs, exit |-> code, trace |-> tr, mem |-> m]

NoMem == <<>>

\* Source documents and job descriptions are only ever read; they live
\* outside `files`.
Doc(suffix, exists, readable) == [suffix |-> suffix, exists |-> exists, readable |-> readable]

Documents ==
    { Doc(".txt", TRUE, TRUE), Doc(".pdf", TRUE, TRUE), Doc(".pdf", TRUE, FALSE),
      Doc(".rtf", TRUE, TRUE), Doc(".txt", FALSE, FALSE) }

\* raw_text = extract_text_from_file(src): what the document says, as the
\* profile content it describes.
raw_text(src) ==
    IF src.suffix = ".txt" THEN ProfileA
    ELSE [ProfileA EXCEPT !.work = <<WorkAcme, WorkGlobex>>]

\* agent = ResumeAgent(...): reads the environment, sends nothing.
NewAgent == <<Ev("ResumeAgent", "init")>>

\* utils/vision.py pdf_to_base64_images as called by bootstrap and update:
\* a list of data URIs, an empty list, ImportError (no PyMuPDF) or another error.
ConvOutcomes == {"images", "no_pages", "ImportError", "Exception"}

PdfImages == <<"data:image/jpeg;base64,AA==">>

\* main.py 201-211 / 267-277: images stay None unless the source is a PDF,
\* --vision is on and the conversion returns.
\* Mutant: the --vision option is not looked at.
VisionImages_IgnoresOption(src, vision, conv) ==
    IF src.suffix = ".pdf" /\ conv = "images" THEN PdfImages ELSE <<>>

VisionImages(src, vision, conv) ==
    IF src.suffix = ".pdf" /\ vision /\ conv = "images" THEN PdfImages ELSE <<>>

VisionTrace(src, vision, conv) ==
    IF src.suffix = ".pdf" /\ vision THEN <<Ev("pdf_to_base64_images", conv)>> ELSE <<>>

\* _render_pdf: TemplateRenderer.render, then PdfGenerator.generate writes
\* `output`; either step failing is typer.Exit(1).
RenderOutcomes == {"ok", "template_fail", "pdf_fail"}

_render_pdf(fs, tr, m, output, render) ==
    CASE render = "template_fail" -> R(fs, 1, tr \o <<Ev("render", "fail")>>, m)
      [] render = "pdf_fail" ->
            R(fs, 1, tr \o <<Ev("render", "ok"), Ev("pdf", "fail")>>, m)
      [] OTHER ->
            R([fs EXCEPT ![output] = Bytes("pdf")], 0,
              tr \o <<Ev("render", "ok"), Ev("pdf", PathStr(output))>>, m)

Dump(obj) == model_dump("MasterProfile", obj.val)

\* write_yaml as the last step of a handler: an exception out of it ends the
\* command with exit code 1.
Save(fs, obj, p, io, tr, m) ==
    R(write_yaml(fs, Dump(obj), p, io), IF io = "ok" THEN 0 ELSE 1,
      tr \o <<Ev("write_yaml", PathStr(p))>>, m)

----------------------------------------------------------------------------
(* main.py: the commands.  Each operator is one handler run to its end on   *)
(* the file system fs; env holds what the outside world does during the run *)
(* (the model's answers, the user's answer to a prompt, the I/O outcome).   *)

\* main.py 26-50
DefaultProfile ==
    [basics |-> [name |-> "John Doe", email |-> "john@example.com",
                 phone |-> "+1 (555) 123-4567",
                 summary |-> "Experienced software engineer...",
                 location |-> [city |-> "San Francisco", countryCode |-> "US"]],
     work |-> << [name |-> "Tech Corp", position |-> "Senior Engineer",
                  startDate |-> "2020-01", summary |-> "Led team of 5...",
                  highlights |-> <<"Improved performance by 50%">>,
                  techStack |-> <<"Python", "AWS">>] >>,
     education |-> << [institution |-> "University of Tech",
                       area |-> "Computer Science", studyType |-> "Bachelor",
                       startDate |-> "2015-09", endDate |-> "2019-06"] >>]

\* Mutant: the answer to "overwrite it?" is not looked at.
init_AlwaysWrites(fs, profile_path, env) ==
    R(write_yaml(fs, DefaultProfile, profile_path, env.io),
      IF env.io = "ok" THEN 0 ELSE 1,
      <<Ev("write_text", PathStr(profile_path))>>, NoMem)

init(fs, profile_path, env) ==
    IF Exists(fs, profile_path) /\ ~env.confirm
      THEN R(fs, 0, <<Ev("confirm", "no")>>, NoMem)
      ELSE R(write_yaml(fs, DefaultProfile, profile_path, env.io),
             IF env.io = "ok" THEN 0 ELSE 1,
             (IF Exists(fs, profile_path) THEN <<Ev("confirm", "yes")>> ELSE <<>>)
                 \o <<Ev("write_text", PathStr(profile_path))>>, NoMem)

build(fs, profile_file, output, env) ==
    IF ~Exists(fs, profile_file) THEN R(fs, 1, <<>>, NoMem)
    ELSE IF ~LoadsProfile(fs, profile_file) THEN R(fs, 1, <<Ev("load", "invalid")>>, NoMem)
    ELSE _render_pdf(fs, <<Ev("load", "ok")>>,
                     [profile |-> LoadProfile(fs, profile_file)], output, env.render)

preview(fs, profile_file, output, env) ==
    IF ~Exists(fs, profile_file) THEN R(fs, 1, <<>>, NoMem)
    ELSE IF ~LoadsProfile(fs, profile_file) THEN R(fs, 1, <<Ev("load", "invalid")>>, NoMem)
    ELSE LET m == [profile |-> LoadProfile(fs, profile_file)] IN
         IF env.render = "template_fail"
           THEN R(fs, 1, <<Ev("load", "ok"), Ev("render", "fail")>>, m)
           ELSE R([fs EXCEPT ![output] = Bytes("html"),
                             ![PreviewCss] = IF env.css THEN Bytes("css") ELSE @], 0,
                  <<Ev("load", "ok"), Ev("render", "ok"),
                    Ev("write_text", PathStr(output))>>
                    \o (IF env.css THEN <<Ev("copy", PathStr(PreviewCss))>> ELSE <<>>)
                    \o <<Ev("webbrowser", PathStr(output))>>, m)

bootstrap(fs, input_file, output_file, vision, env) ==
    IF ~input_file.exists THEN R(fs, 1, <<>>, NoMem)
    ELSE IF Exists(fs, output_file) /\ ~env.overwrite
      THEN R(fs, 1, <<Ev("confirm", "no")>>, NoMem)           \* typer.Abort
    ELSE
      LET t0 == IF Exists(fs, output_file) THEN <<Ev("confirm", "yes")>> ELSE <<>>
          ex == extract_text_from_file(input_file)
          t1 == t0 \o <<Ev("extract", ex)>>
      IN
      IF ex # "ok" THEN R(fs, 1, t1, NoMem)
      ELSE
        LET bp == bootstrap_profile(env.resp, VisionImages(input_file, vision, env.conv))
            t2 == t1 \o VisionTrace(input_file, vision, env.conv) \o NewAgent
                     \o <<Ev("messages", bp.messages), Ev("completion", "bootstrap_profile")>>
            m  == [profile |-> bp.result.value, error |-> bp.result.locs]
        IN
        IF bp.result.raised THEN R(fs, 1, t2 \o <<Ev("raised", bp.result.err)>>, m)
        ELSE Save(fs, bp.result.value, output_file, env.io, t2, m)

update(fs, new_resume_file, profile_file, vision, env) ==
    IF ~new_resume_file.exists THEN R(fs, 1, <<>>, NoMem)
    ELSE IF ~Exists(fs, profile_file) THEN R(fs, 1, <<>>, NoMem)
    ELSE IF ~LoadsProfile(fs, profile_file) THEN R(fs, 1, <<Ev("load", "invalid")>>, NoMem)
    ELSE
      LET loaded == LoadProfile(fs, profile_file)
          ex == extract_text_from_file(new_resume_file)
          t1 == <<Ev("load", "ok"), Ev("extract", ex)>>
      IN
      IF ex # "ok" THEN R(fs, 1, t1, NoMem)
      ELSE
        LET mg == merge_profile(loaded, env.resp,
                                VisionImages(new_resume_file, vision, env.conv))
            t2 == t1 \o VisionTrace(new_resume_file, vision, env.conv) \o NewAgent
                     \o <<Ev("messages", mg.messages), Ev("completion", "merge_profile")>>
            m  == [loaded |-> loaded, current_profile |-> mg.current,
                   merged_profile |-> mg.result.value, error |-> mg.result.locs]
        IN
        IF mg.result.raised THEN R(fs, 1, t2 \o <<Ev("raised", mg.result.err)>>, m)
        ELSE IF ~env.confirm THEN R(fs, 0, t2 \o <<Ev("confirm", "no")>>, m)
        ELSE Save(fs, mg.result.value, profile_file, env.io,
                  t2 \o <<Ev("confirm", "yes")>>, m)

tailor(fs, job_description_file, profile_file, output, env) ==
    IF ~Exists(fs, profile_file) THEN R(fs, 1, <<>>, NoMem)
    ELSE IF ~job_description_file.exists THEN R(fs, 1, <<>>, NoMem)
    ELSE IF ~LoadsProfile(fs, profile_file) THEN R(fs, 1, <<Ev("load", "invalid")>>, NoMem)
    ELSE IF ~job_description_file.readable
      THEN R(fs, 1, <<Ev("load", "ok"), Ev("read_text", "error")>>, NoMem)
    ELSE
      LET profile == LoadProfile(fs, profile_file)
          an == analyze_job_description(env.resp)
          t1 == <<Ev("load", "ok"), Ev("read_text", "ok")>> \o NewAgent
                   \o <<Ev("completion", "analyze_job_description")>>
      IN
      IF an.raised THEN R(fs, 1, t1 \o <<Ev("raised", an.err)>>, [profile |-> profile])
      ELSE IF ~an.value.is_object                  \* analysis.get: AttributeError
        THEN R(fs, 1, t1 \o <<Ev("raised", "analysis")>>, [profile |-> profile])
      ELSE
        LET tp == tailor_profile(profile, env.resp2)
            t2 == t1 \o <<Ev("completion", "tailor_profile")>>
            m  == [profile |-> profile, tailored_profile |-> tp.value, error |-> tp.locs]
        IN
        IF tp.raised THEN R(fs, 1, t2 \o <<Ev("raised", tp.err)>>, m)
        ELSE
          LET saved == Save(fs, tp.value, with_suffix(output, ".yaml"), env.io, t2, m)
          IN IF saved.exit # 0 THEN saved
             ELSE _render_pdf(saved.files, saved.trace, m, output, env.render)

\* profile.<category>.append(<Class>(**entity_data)): the loaded object is
\* changed in place.
Category(entity_type) ==
    CASE entity_type = "work"      -> "work"
      [] entity_type = "project"   -> "projects"
      [] entity_type = "education" -> "education"
      [] entity_type = "skill"     -> "skills"

\* Mutant: the new entity is inserted at the head of the list.
Appended_AtFront(profile, entity_type, entity_data) ==
    [profile EXCEPT !.val[Category(entity_type)] =
        <<Construct(EntityClass(entity_type), entity_data)>> \o @]

Appended(profile, entity_type, entity_data) ==
    [profile EXCEPT !.val[Category(entity_type)] =
        Append(@, Construct(EntityClass(entity_type), entity_data))]

add(fs, entity_type, profile_file, env) ==
    IF ~Exists(fs, profile_file) THEN R(fs, 1, <<>>, NoMem)
    ELSE IF ~LoadsProfile(fs, profile_file) THEN R(fs, 1, <<Ev("load", "invalid")>>, NoMem)
    ELSE
      LET loaded == LoadProfile(fs, profile_file)
          ee == extract_entity(entity_type, env.resp)
          t1 == <<Ev("load", "ok")>> \o NewAgent \o
                (IF ee.requests = 1 THEN <<Ev("completion", "extract_entity")>> ELSE <<>>)
          m0 == [loaded |-> loaded, profile |-> loaded, error |-> {}]
      IN
      IF ee.raised THEN R(fs, 1, t1 \o <<Ev("raised", ee.err)>>, m0)
      ELSE IF ~env.confirm THEN R(fs, 0, t1 \o <<Ev("confirm", "no")>>, m0)
      ELSE IF entity_type \notin {"work", "project", "education", "skill"}
        THEN R(fs, 1, t1 \o <<Ev("confirm", "yes"),           \* the else of the dispatch
                               Ev("print", "Unsupported entity type")>>, m0)
      ELSE IF ~Accepts(EntityClass(entity_type), ee.value.is_object, ee.value.val)
        THEN R(fs, 1, t1 \o <<Ev("confirm", "yes"), Ev("raised", "validation")>>,
               [m0 EXCEPT !.error = IF ee.value.is_object
                                      THEN Violations(EntityClass(entity_type), ee.value.val)
                                      ELSE {}])
      ELSE
        LET profile == Appended(loaded, entity_type, ee.value.val)
        IN Save(fs, profile, profile_file, env.io, t1 \o <<Ev("confirm", "yes")>>,
                [loaded |-> loaded, profile |-> profile, error |-> {},
                 entity_data |-> ee.value.val])

suggest(fs, profile_file, env) ==
    IF ~Exists(fs, profile_file) THEN R(fs, 1, <<>>, NoMem)
    ELSE IF ~LoadsProfile(fs, profile_file) THEN R(fs, 1, <<Ev("load", "invalid")>>, NoMem)
    ELSE
      LET sg == suggest_improvements(env.resp)
          t1 == <<Ev("load", "ok")>> \o NewAgent
                   \o <<Ev("completion", "suggest_improvements")>>
      IN
      IF sg.raised THEN R(fs, 1, t1 \o <<Ev("raised", sg.err)>>, NoMem)
      ELSE IF ~sg.value.is_object                  \* feedback.get: AttributeError
        THEN R(fs, 1, t1 \o <<Ev("raised", "feedback")>>, NoMem)
      ELSE R(fs, 0, t1, NoMem)

validate(fs, profile_file) ==
    IF ~Exists(fs, profile_file) THEN R(fs, 1, <<>>, NoMem)
    ELSE IF ~LoadsProfile(fs, profile_file) THEN R(fs, 1, <<Ev("load", "invalid")>>, NoMem)
    ELSE R(fs, 0, <<Ev("load", "ok")>>, NoMem)

----------------------------------------------------------------------------
(* The state machine: one command line after another *)

Run(c, e, r) ==
    /\ files' = r.files
    /\ before' = files
    /\ cmd' = c
    /\ world' = e
    /\ exit' = r.exit
    /\ trace' = r.trace
    /\ mem' = r.mem
    /\ ncmds' = ncmds + 1

\* S when the choice matters to the run, one arbitrary value when it cannot.
When(b, S, d) == IF b THEN S ELSE {d}

Usable(resp) == resp.kind = "json" /\ Violations("MasterProfile", resp.payload) = {}

Extractable(src) == src.exists /\ extract_text_from_file(src) = "ok"

VisionChoices(src) ==
    { v \in [vision : BOOLEAN, conv : ConvOutcomes] :
        /\ src.suffix # ".pdf" => v.vision
        /\ (src.suffix # ".pdf" \/ ~v.vision) => v.conv = "images" }

NoVision == [vision |-> TRUE, conv |-> "images"]

Init ==
    /\ files \in { [p \in Paths |-> IF p = MasterPath THEN c ELSE Absent] :
                     c \in { Absent, Truncated, Yaml(ProfileA), Yaml(DefaultProfile),
                             Yaml([basics |-> BasicsNoMail, work |-> <<WorkAcme>>]) } }
    /\ before = files
    /\ cmd = [name |-> "none"]
    /\ world = <<>>
    /\ exit = 0
    /\ trace = <<>>
    /\ mem = NoMem
    /\ ncmds = 0

InitCmd ==
    /\ ncmds < MaxCommands
    /\ \E confirm \in When(Exists(files, MasterPath), BOOLEAN, TRUE) :
       \E io \in When(confirm, IOOutcomes, "ok") :
           LET e == [confirm |-> confirm, io |-> io] IN
           Run([name |-> "init", profile_path |-> MasterPath], e,
               init(files, MasterPath, e))

BuildCmd ==
    /\ ncmds < MaxCommands
    /\ \E render \in When(LoadsProfile(files, MasterPath), RenderOutcomes, "ok") :
           LET e == [render |-> render] IN
           Run([name |-> "build", profile_file |-> MasterPath, output |-> ResumePdf], e,
               build(files, MasterPath, ResumePdf, e))

PreviewCmd ==
    /\ ncmds < MaxCommands
    /\ \E render \in When(LoadsProfile(files, MasterPath), {"ok", "template_fail"}, "ok") :
       \E css \in When(LoadsProfile(files, MasterPath) /\ render = "ok", BOOLEAN, TRUE) :
           LET e == [render |-> render, css |-> css] IN
           Run([name |-> "preview", profile_file |-> MasterPath, output |-> PreviewHtml], e,
               preview(files, MasterPath, PreviewHtml, e))

BootstrapCmd ==
    /\ ncmds < MaxCommands
    /\ \E src \in Documents :
       \E overwrite \in When(src.exists /\ Exists(files, MasterPath), BOOLEAN, TRUE) :
       LET reach == overwrite /\ Extractable(src) IN
       \E v \in When(reach, VisionChoices(src), NoVision) :
       \E resp \in When(reach, Responses(ProfilePayloads), J(ProfileA)) :
       \E io \in When(reach /\ Usable(resp), IOOutcomes, "ok") :
           LET e == [resp |-> resp, conv |-> v.conv, overwrite |-> overwrite, io |-> io] IN
           Run([name |-> "bootstrap", input_file |-> src, output_file |-> MasterPath,
                vision |-> v.vision], e,
               bootstrap(files, src, MasterPath, v.vision, e))

UpdateCmd ==
    /\ ncmds < MaxCommands
    /\ \E src \in Documents :
       LET reach == Extractable(src) /\ LoadsProfile(files, MasterPath) IN
       \E v \in When(reach, VisionChoices(src), NoVision) :
       \E resp \in When(reach, Responses(ProfilePayloads), J(ProfileA)) :
       \E confirm \in When(reach /\ Usable(resp), BOOLEAN, TRUE) :
       \E io \in When(reach /\ Usable(resp) /\ confirm, IOOutcomes, "ok") :
           LET e == [resp |-> resp, conv |-> v.conv, confirm |-> confirm, io |-> io] IN
           Run([name |-> "update", new_resume_file |-> src, profile_file |-> MasterPath,
                vision |-> v.vision], e,
               update(files, src, MasterPath, v.vision, e))

TailorOutputs == { TailoredPdf, Path("master-profile", ".pdf"), MasterPath }

TailorCmd ==
    /\ ncmds < MaxCommands
    /\ \E jd \in { Doc(".txt", TRUE, TRUE), Doc(".txt", TRUE, FALSE), Doc(".txt", FALSE, FALSE) } :
       LET reach == jd.exists /\ jd.readable /\ LoadsProfile(files, MasterPath) IN
       \E output \in When(reach, TailorOutputs, TailoredPdf) :
       \E resp \in When(reach, Responses(AnalysisPayloads), J(ProfileA)) :
       \E resp2 \in When(reach /\ resp.kind = "json", Responses(ProfilePayloads), J(ProfileA)) :
       \E io \in When(reach /\ resp.kind = "json" /\ Usable(resp2), IOOutcomes, "ok") :
       \E render \in When(reach /\ resp.kind = "json" /\ Usable(resp2) /\ io = "ok",
                          RenderOutcomes, "ok") :
           LET e == [resp |-> resp, resp2 |-> resp2, io |-> io, render |-> render] IN
           Run([name |-> "tailor", job_description_file |-> jd, profile_file |-> MasterPath,
                output |-> output], e,
               tailor(files, jd, MasterPath, output, e))

EntityTypes == {"work", "project", "education", "skill", "award"}

AddCmd ==
    /\ ncmds < MaxCommands
    /\ \E entity_type \in When(LoadsProfile(files, MasterPath), EntityTypes, "work") :
       LET reach == LoadsProfile(files, MasterPath) /\ EntityClass(entity_type) # "" IN
       \E resp \in When(reach, Responses(EntityPayloads(entity_type)), J(WorkAcme)) :
       \E confirm \in When(reach /\ resp.kind \notin Failures, BOOLEAN, TRUE) :
       \E io \in When(reach /\ resp.kind = "json" /\ confirm, IOOutcomes, "ok") :
           LET e == [resp |-> resp, confirm |-> confirm, io |-> io] IN
           Run([name |-> "add", entity_type |-> entity_type, profile_file |-> MasterPath], e,
               add(files, entity_type, MasterPath, e))

SuggestCmd ==
    /\ ncmds < MaxCommands
    /\ \E resp \in When(LoadsProfile(files, MasterPath),
                        Responses({ [gaps |-> <<"No projects">>, suggestions |-> <<>>] }),
                        J(ProfileA)) :
           LET e == [resp |-> resp] IN
           Run([name |-> "suggest", profile_file |-> MasterPath], e,
               suggest(files, MasterPath, e))

ValidateCmd ==
    /\ ncmds < MaxCommands
    /\ Run([name |-> "validate", profile_file |-> MasterPath], <<>>,
           validate(files, MasterPath))

Next ==
    \/ InitCmd
    \/ BuildCmd
    \/ PreviewCmd
    \/ BootstrapCmd
    \/ UpdateCmd
    \/ TailorCmd
    \/ AddCmd
    \/ SuggestCmd
    \/ ValidateCmd

Spec == Init /\ [][Next]_vars

----------------------------------------------------------------------------
(* Vocabulary of the properties *)

HasEv(ev, arg) == \E i \in DOMAIN trace : trace[i] = Ev(ev, arg)

Completions == { i \in DOMAIN trace : trace[i].ev = "completion" }

Writes == { i \in DOMAIN trace : trace[i].ev \in {"write_yaml", "write_text", "pdf", "copy"} }

\* What is on disk at p is there and is not a schema-valid profile.
InvalidOnDisk(fs, p) ==
    /\ fs[p].kind # "absent"
    /\ fs[p].kind # "yaml" \/ Violations("MasterProfile", fs[p].data) # {}

ValidOnDisk(fs, p) ==
    fs[p].kind = "yaml" /\ Violations("MasterProfile", fs[p].data) = {}

\* The model answered with something usable as cls.
ValidJson(resp, cls) == resp.kind = "json" /\ Violations(cls, resp.payload) = {}

----------------------------------------------------------------------------
(* C1: bootstrap, update and add leave the profile file holding either its  *)
(* complete previous content or a complete schema-valid profile, whatever   *)
(* step fails, a failure inside write_yaml included.                        *)
C1_ProfileNeverPartiallyWritten ==
    cmd.name \in {"bootstrap", "update", "add"} =>
        \/ files[MasterPath] = before[MasterPath]
        \/ ValidOnDisk(files, MasterPath)

(* C2: the profile merge_profile returns to update holds every highlight    *)
(* and course of the existing profile, and every tech-stack term and        *)
(* keyword of it up to letter case.                                         *)
Lower(term) ==
    CASE term = "Python" -> "python" [] term = "AWS" -> "aws"
      [] term = "Django" -> "django" [] OTHER -> term

Range(seq) == { seq[i] : i \in DOMAIN seq }

Gather(list, field) == UNION { Range(list[i][field]) : i \in DOMAIN list }

Highlights(v) == Gather(v.work, "highlights") \cup Gather(v.projects, "highlights")
Courses(v)    == Gather(v.education, "courses")
TechTerms(v)  ==
    { Lower(x) : x \in Gather(v.work, "tech_stack") \cup Gather(v.projects, "tech_stack") }
Keywords(v)   == { Lower(x) : x \in Gather(v.skills, "keywords") }

MergeCalled == cmd.name = "update" /\ HasEv("completion", "merge_profile")

MergeReturned == MergeCalled /\ mem.merged_profile.oid # 0

C2_MergeKeepsExistingContent ==
    MergeReturned =>
        LET A == mem.loaded.val
            M == mem.merged_profile.val
        IN /\ Highlights(A) \subseteq Highlights(M)
           /\ Courses(A) \subseteq Courses(M)
           /\ TechTerms(A) \subseteq TechTerms(M)
           /\ Keywords(A) \subseteq Keywords(M)

(* C3: tailor leaves the file holding the master profile as it was, for any *)
(* --input and any --output.                                                *)
C3_TailorLeavesMasterUntouched ==
    cmd.name = "tailor" => files[cmd.profile_file] = before[cmd.profile_file]

(* C4: update, add, tailor, suggest, build and preview on a profile file    *)
(* that fails schema validation exit with code 1, having sent no completion *)
(* request and written no file.                                             *)
C4_InvalidProfileRefused ==
    ( /\ cmd.name \in {"update", "add", "tailor", "suggest", "build", "preview"}
      /\ InvalidOnDisk(before, cmd.profile_file) )
    => /\ exit = 1
       /\ Completions = {}
       /\ Writes = {}
       /\ files = before

C4_Witness ==
    /\ cmd.name = "update"
    /\ cmd.new_resume_file.exists
    /\ before[MasterPath].kind = "yaml"
    /\ "basics.email" \in Violations("MasterProfile", before[MasterPath].data)
    /\ exit = 1

(* C5: when the completion call raises, returns no choices, no content or   *)
(* text that is not JSON, the command ends with exit code 1 without sending *)
(* another completion request and with every file as it was.                *)
FailedRequest ==
    IF Completions = {} THEN 0
    ELSE IF world.resp.kind \in Failures THEN 1
    ELSE IF cmd.name = "tailor" /\ Cardinality(Completions) = 2
            /\ world.resp2.kind \in Failures THEN 2
    ELSE 0

C5_GenerationFailureAborts ==
    FailedRequest # 0 =>
        /\ exit = 1
        /\ Cardinality(Completions) = FailedRequest
        /\ Writes = {}
        /\ files = before

C5_Witness ==
    /\ cmd.name = "tailor"
    /\ FailedRequest = 2
    /\ world.resp2.kind = "not_json"

(* C6: add with an entity that does not validate fails with a validation    *)
(* error and leaves the profile as it was; otherwise the target category is *)
(* the old list followed by the new entity and everything else is as it     *)
(* was, in memory and, once written, on disk.                               *)
C6_AddAppendsOrFails ==
    (cmd.name = "add" /\ HasEv("confirm", "yes")) =>
        LET cls == EntityClass(cmd.entity_type)
            cat == Category(cmd.entity_type)
            old == Construct("MasterProfile", before[MasterPath].data)
            new == mem.profile.val
        IN IF ~ValidJson(world.resp, cls)
             THEN /\ exit = 1
                  /\ HasEv("raised", "validation")
                  /\ files = before
                  /\ new = old
             ELSE /\ new[cat] = Append(old[cat], Construct(cls, world.resp.payload))
                  /\ DOMAIN new = DOMAIN old
                  /\ \A k \in DOMAIN old \ {cat} : new[k] = old[k]
                  /\ world.io = "ok" =>
                        /\ exit = 0
                        /\ files = [before EXCEPT ![MasterPath] =
                                      Yaml(model_dump("MasterProfile", new))]
                        /\ Construct("MasterProfile", files[MasterPath].data) = new

C6_Witness ==
    /\ cmd.name = "add"
    /\ cmd.entity_type = "work"
    /\ HasEv("confirm", "yes")
    /\ exit = 0
    /\ Len(mem.profile.val.work) = 2
    /\ mem.profile.val.work[2].name = "Globex"

(* C7: in the persisted profile no two entries of work, projects, education *)
(* or skills are duplicates under the identity rule, after any sequence of  *)
(* bootstrap, update and add.                                               *)
Identity(cat, e) ==
    CASE cat = "work"      -> <<e.name, e.position>>
      [] cat = "projects"  -> <<e.name>>
      [] cat = "education" -> <<e.institution, e.area, e.study_type>>
      [] cat = "skills"    -> <<Lower(e.name)>>

Categories == {"work", "projects", "education", "skills"}

NoDuplicates(v) ==
    \A cat \in Categories : \A i, j \in DOMAIN v[cat] :
        i # j => Identity(cat, v[cat][i]) # Identity(cat, v[cat][j])

C7_NoDuplicateEntries ==
    (cmd.name \in {"none", "bootstrap", "update", "add"} /\ ValidOnDisk(files, MasterPath))
        => NoDuplicates(Construct("MasterProfile", files[MasterPath].data))

(* C8: merge_profile leaves current_profile field for field as it was,      *)
(* whether it returns or raises, and what it returns is another object.     *)
C8_MergeLeavesInputAlone ==
    MergeCalled =>
        /\ mem.loaded = LoadProfile(before, MasterPath)
        /\ mem.current_profile = mem.loaded
        /\ MergeReturned => mem.merged_profile.oid # mem.current_profile.oid

C8_Witness ==
    /\ MergeReturned
    /\ mem.merged_profile.val # mem.loaded.val
    /\ exit = 0

(* C9: in every category of the merged profile the existing entries keep    *)
(* their positions and new entries come after them.                         *)
C9_MergeKeepsOrder ==
    MergeReturned =>
        \A cat \in Categories :
            LET A == mem.loaded.val[cat]
                M == mem.merged_profile.val[cat]
            IN /\ Len(M) >= Len(A)
               /\ \A i \in DOMAIN A : Identity(cat, M[i]) = Identity(cat, A[i])

(* C10 as stated: the merge fails only when an input profile (the existing  *)
(* one or the candidate payload) fails schema validation.                   *)
C10_MergeFailsOnlyOnInvalidProfile ==
    (MergeCalled /\ ~MergeReturned) =>
        \/ InvalidOnDisk(before, MasterPath)
        \/ /\ world.resp.kind \notin Failures
           /\ ~ValidJson(world.resp, "MasterProfile")

(* C10 as amended: merge_profile fails exactly when the completion call     *)
(* fails or the JSON it returns does not validate as a MasterProfile;       *)
(* otherwise it returns the profile built from that JSON; when it fails the *)
(* command exits with code 1 and the existing profile, object and file, is  *)
(* untouched.                                                               *)
C10_MergeFailsOnGenerationOrInvalidPayload ==
    MergeCalled =>
        /\ ~MergeReturned <=>
              (world.resp.kind \in Failures \/ ~ValidJson(world.resp, "MasterProfile"))
        /\ ~MergeReturned =>
              /\ exit = 1
              /\ files = before
              /\ mem.current_profile = LoadProfile(before, MasterPath)
        /\ MergeReturned =>
              mem.merged_profile.val = Construct("MasterProfile", world.resp.payload)

C10_Witness ==
    /\ MergeCalled
    /\ ~MergeReturned
    /\ world.resp.kind = "no_choices"
    /\ ValidOnDisk(before, MasterPath)

----------------------------------------------------------------------------
(* Two merge_profile calls on the same arguments, as two runs of the merge  *)
(* on one existing profile and one new resume; each call sends its own      *)
(* completion request and the model answers each on its own.                *)

MergeTwiceCmd ==
    /\ ncmds < MaxCommands
    /\ LoadsProfile(files, MasterPath)
    /\ \E src \in { d \in Documents : Extractable(d) } :
       \E resp \in Responses(ProfilePayloads) :
       \E resp2 \in Responses(ProfilePayloads) :
           LET current == LoadProfile(files, MasterPath)
               first   == merge_profile(current, resp, <<>>)
               second  == merge_profile(first.current, resp2, <<>>)
           IN Run([name |-> "merge_twice", new_resume_file |-> src,
                   profile_file |-> MasterPath],
                  [resp |-> resp, resp2 |-> resp2],
                  R(files, 0,
                    <<Ev("load", "ok"), Ev("extract", "ok")>> \o NewAgent
                      \o <<Ev("messages", first.messages), Ev("completion", "merge_profile"),
                           Ev("messages", second.messages), Ev("completion", "merge_profile")>>,
                    [loaded |-> current, current_profile |-> second.current,
                     first |-> first.result, second |-> second.result]))

NextTwoMerges == MergeTwiceCmd

SpecTwoMerges == Init /\ [][NextTwoMerges]_vars

----------------------------------------------------------------------------
\* The validated profile objects the last command held when it ended.
ProfileKeys == {"profile", "loaded", "current_profile", "merged_profile", "tailored_profile"}

HeldProfiles ==
    { mem[k].val : k \in { h \in DOMAIN mem \cap ProfileKeys : mem[h].oid # 0 } }

\* The profile on disk, when there is one.
PersistedProfiles ==
    IF ValidOnDisk(files, MasterPath)
      THEN { Construct("MasterProfile", files[MasterPath].data) } ELSE {}

(* C11: merge idempotence.  When the new resume says exactly what the       *)
(* existing profile A holds, the profile merge_profile returns equals A in  *)
(* every field and holds no duplicated entry.                               *)
InputRepeatsExisting ==
    /\ MergeReturned
    /\ Violations("MasterProfile", raw_text(cmd.new_resume_file)) = {}
    /\ Construct("MasterProfile", raw_text(cmd.new_resume_file)) = mem.loaded.val

C11_MergeIdempotent ==
    InputRepeatsExisting =>
        /\ mem.merged_profile.val = mem.loaded.val
        /\ NoDuplicates(mem.merged_profile.val)

(* C12: merge determinism.  Two runs of merge_profile on the same existing  *)
(* profile and the same new resume either both fail or return profiles     *)
(* equal in every field.                                                    *)
C12_MergeDeterministic ==
    cmd.name = "merge_twice" =>
        /\ mem.first.raised = mem.second.raised
        /\ mem.first.value.val = mem.second.value.val

(* C13: every start date and end date of a profile that a command built,    *)
(* merged or left on disk is absent or a YYYY-MM string.                    *)
YearMonths == {"2015-09", "2019-01", "2019-06", "2020-01"}

Dated == {"work", "projects", "education"}

Dates(v) ==
    UNION { UNION { { v[cat][i][d] : d \in DOMAIN v[cat][i] \cap {"start_date", "end_date"} }
                    : i \in DOMAIN v[cat] }
            : cat \in Dated }

C13_DatesAreYearMonth ==
    \A v \in HeldProfiles \cup PersistedProfiles : Dates(v) \subseteq YearMonths

(* C14: bootstrap and update on a source file whose suffix the text         *)
(* extractor does not support end at the extraction: exit code 1, no agent  *)
(* constructed, no completion request sent, no file written.                *)
Source == IF cmd.name = "bootstrap" THEN cmd.input_file ELSE cmd.new_resume_file

UnsupportedSource ==
    /\ cmd.name \in {"bootstrap", "update"}
    /\ Source.exists
    /\ Source.suffix \notin {".pdf", ".docx", ".txt", ".md"}

C14_UnsupportedFormatAborts ==
    UnsupportedSource =>
        /\ exit = 1
        /\ files = before
        /\ Writes = {}
        /\ Completions = {}
        /\ ~HasEv("ResumeAgent", "init")
        /\ \A i \in DOMAIN trace :
              trace[i].ev = "extract" => (i = Len(trace) /\ trace[i].arg = "unsupported")

C14_Witness ==
    /\ cmd.name = "bootstrap"
    /\ cmd.input_file.suffix = ".rtf"
    /\ trace = <<Ev("confirm", "yes"), Ev("extract", "unsupported")>>
    /\ ValidOnDisk(before, MasterPath)

(* C15: store round trip.  Every validated profile P a command holds is     *)
(* rebuilt field for field from its own model_dump, and after a write_yaml  *)
(* that succeeded the profile read back from the file equals the one that   *)
(* was saved.                                                               *)
Saved ==
    CASE cmd.name = "bootstrap" -> mem.profile
      [] cmd.name = "update"    -> mem.merged_profile
      [] cmd.name = "add"       -> mem.profile

WroteProfile ==
    /\ cmd.name \in {"bootstrap", "update", "add"}
    /\ HasEv("write_yaml", PathStr(MasterPath))
    /\ world.io = "ok"

C15_StoreRoundTrip ==
    /\ \A P \in HeldProfiles :
          LET d == model_dump("MasterProfile", P)
          IN /\ Violations("MasterProfile", d) = {}
             /\ Construct("MasterProfile", d) = P
    /\ WroteProfile =>
          /\ files[MasterPath].kind = "yaml"
          /\ Violations("MasterProfile", files[MasterPath].data) = {}
          /\ Construct("MasterProfile", files[MasterPath].data) = Saved.val

(* C16: a payload with offending fields builds no object, and the           *)
(* ValidationError names every required field that is missing from it, not  *)
(* only the first; a payload without basics.email is refused with an error  *)
(* that names basics.email.                                                 *)
MissingRequired(cls, data) ==
    { f.alias : f \in { g \in Fields(cls) :
                          g.required /\ g.alias \notin DOMAIN data /\ g.name \notin DOMAIN data } }

OffendingProfile(p) ==
    MissingRequired("MasterProfile", p)
    \cup (IF "basics" \in DOMAIN p
            THEN { "basics." \o a : a \in MissingRequired("Basics", p.basics) } ELSE {})
    \cup UNION { UNION { { f.alias \o "." \o IdxStr(i) \o "." \o a :
                             a \in MissingRequired(f.cls, p[f.alias][i]) }
                         : i \in DOMAIN p[f.alias] }
                 : f \in { g \in Fields("MasterProfile") :
                             g.kind = "listmodel" /\ g.alias \in DOMAIN p } }

\* The command asked for a MasterProfile and got a JSON object; the payload
\* it tried to build the profile from, and the object it got.
BuiltProfile ==
    \/ cmd.name = "bootstrap" /\ HasEv("completion", "bootstrap_profile") /\ world.resp.kind = "json"
    \/ cmd.name = "update" /\ HasEv("completion", "merge_profile") /\ world.resp.kind = "json"
    \/ cmd.name = "tailor" /\ HasEv("completion", "tailor_profile") /\ world.resp2.kind = "json"

BuiltFrom == IF cmd.name = "tailor" THEN world.resp2.payload ELSE world.resp.payload

BuiltObject ==
    CASE cmd.name = "bootstrap" -> mem.profile
      [] cmd.name = "update"    -> mem.merged_profile
      [] cmd.name = "tailor"    -> mem.tailored_profile

BuiltEntity ==
    /\ cmd.name = "add"
    /\ HasEv("completion", "extract_entity")
    /\ world.resp.kind = "json"
    /\ world.confirm

C16_ViolationsReportedCompletely ==
    /\ (BuiltProfile /\ OffendingProfile(BuiltFrom) # {}) =>
          /\ BuiltObject = NoObject
          /\ exit = 1
          /\ files = before
          /\ OffendingProfile(BuiltFrom) \subseteq mem.error
    /\ (BuiltEntity /\ MissingRequired(EntityClass(cmd.entity_type), world.resp.payload) # {}) =>
          /\ mem.profile = mem.loaded
          /\ exit = 1
          /\ files = before
          /\ MissingRequired(EntityClass(cmd.entity_type), world.resp.payload) \subseteq mem.error

C16_Witness ==
    /\ cmd.name = "bootstrap"
    /\ BuiltProfile
    /\ "education" \in DOMAIN world.resp.payload
    /\ mem.profile = NoObject
    /\ mem.error = { "work.0.startDate", "education.0.area", "education.0.studyType",
                     "education.0.startDate" }

(* C17: no profile that a command built or left on disk has an empty        *)
(* basics.name or a basics.email that is not a well-formed address.         *)
WellFormedEmails == {"jane@x.com", "john@example.com"}

C17_BasicsConstraints ==
    \A v \in HeldProfiles \cup PersistedProfiles :
        /\ v.basics.name # ""
        /\ v.basics.email \in WellFormedEmails

(* C18: keys that name no field are ignored.  A payload whose known part    *)
(* is acceptable builds an object, and the object is the one built from     *)
(* the payload without its unknown keys, for a profile and for an entity.   *)
RECURSIVE Strip(_, _)
\* data without the keys that are neither alias nor name of a field of cls.
Strip(cls, data) ==
    LET Field(k) == CHOOSE f \in Fields(cls) : k \in {f.alias, f.name}
    IN [ k \in { h \in DOMAIN data : \E f \in Fields(cls) : h \in {f.alias, f.name} } |->
           CASE Field(k).kind = "model" -> Strip(Field(k).cls, data[k])
             [] Field(k).kind = "listmodel" ->
                  [ i \in DOMAIN data[k] |-> Strip(Field(k).cls, data[k][i]) ]
             [] OTHER -> data[k] ]

C18_UnknownFieldsIgnored ==
    /\ BuiltProfile =>
          LET known == Strip("MasterProfile", BuiltFrom) IN
          Violations("MasterProfile", known) = {} =>
              /\ BuiltObject # NoObject
              /\ BuiltObject.val = Construct("MasterProfile", known)
    /\ BuiltEntity =>
          LET cls   == EntityClass(cmd.entity_type)
              known == Strip(cls, world.resp.payload)
              list  == mem.profile.val[Category(cmd.entity_type)]
          IN Violations(cls, known) = {} =>
              /\ Len(list) = Len(mem.loaded.val[Category(cmd.entity_type)]) + 1
              /\ list[Len(list)] = Construct(cls, known)

C18_Witness ==
    /\ cmd.name = "bootstrap"
    /\ BuiltProfile
    /\ world.resp.payload = ProfileRich
    /\ "extra" \in DOMAIN world.resp.payload
    /\ "nickname" \in DOMAIN world.resp.payload.work[1]
    /\ mem.profile.val.basics.location = [city |-> "Oslo", postal_code |-> "0150"]
    /\ DOMAIN mem.profile.val = {"basics", "work", "projects", "education", "skills"}

(* C19: entry matching.  A candidate whose identity key equals that of an   *)
(* existing entry matches it, at the earliest such index; an entry of the   *)
(* merged profile that matches existing entry i stands at position i (it    *)
(* is the update of that entry), so no entry that has a match is placed as  *)
(* a new one.                                                               *)
Match(cat, candidate, existing) ==
    LET hits == { i \in DOMAIN existing :
                    Identity(cat, existing[i]) = Identity(cat, candidate) }
    IN IF hits = {} THEN 0 ELSE CHOOSE i \in hits : \A j \in hits : i <= j

C19_MatchedEntryTakesItsIndex ==
    MergeReturned =>
        \A cat \in Categories :
            LET A == mem.loaded.val[cat]
                M == mem.merged_profile.val[cat]
            IN \A j \in DOMAIN M : Match(cat, M[j], A) \in {0, j}

(* C20: when the user answers no to "apply these changes?" (update), "add   *)
(* this to your profile?" (add), "Overwrite?" (bootstrap) or "overwrite     *)
(* it?" (init), nothing is written and every file is as it was; bootstrap   *)
(* stops at the prompt, before extraction, conversion or any request.       *)
Declined ==
    \/ cmd.name \in {"update", "add", "init"} /\ ~world.confirm
    \/ cmd.name = "bootstrap" /\ ~world.overwrite

C20_DeclineLeavesTarget ==
    Declined =>
        /\ files = before
        /\ Writes = {}
        /\ trace # <<>> /\ trace[Len(trace)] = Ev("confirm", "no")
        /\ cmd.name = "bootstrap" => trace = <<Ev("confirm", "no")>>

C20_Witness ==
    /\ cmd.name = "update"
    /\ ~world.confirm
    /\ MergeReturned
    /\ mem.merged_profile.val # mem.loaded.val
    /\ files[MasterPath] = before[MasterPath]

(* C21: add with an entity type other than work, project, education and    *)
(* skill is refused by extract_entity before any completion request: exit   *)
(* code 1, no confirmation prompt, no file changed; and no run of add ever  *)
(* reaches the "Unsupported entity type" else of the append dispatch.       *)
UnknownEntityType ==
    /\ cmd.name = "add"
    /\ cmd.entity_type \notin {"work", "project", "education", "skill"}

Prompts == { i \in DOMAIN trace : trace[i].ev = "confirm" }

C21_UnknownEntityTypeRefused ==
    /\ (UnknownEntityType /\ ValidOnDisk(before, MasterPath)) =>
          /\ exit = 1
          /\ Completions = {}
          /\ Prompts = {}
          /\ Writes = {}
          /\ files = before
          /\ trace[Len(trace)] = Ev("raised", "unsupported")
    /\ cmd.name = "add" => ~HasEv("print", "Unsupported entity type")

C21_Witness ==
    /\ UnknownEntityType
    /\ cmd.entity_type = "award"
    /\ trace = <<Ev("load", "ok"), Ev("ResumeAgent", "init"), Ev("raised", "unsupported")>>
    /\ exit = 1

(* C22: the order of tailor's effects.  The tailored YAML is written only   *)
(* after the analysis request and then the tailoring request succeeded and  *)
(* the tailored JSON validated as a MasterProfile; rendering starts only    *)
(* after that write succeeded; when the analysis request fails no tailoring *)
(* request is sent; when rendering fails the command exits with code 1 and  *)
(* the tailored YAML is on disk.                                            *)
At(ev, arg) == { i \in DOMAIN trace : trace[i] = Ev(ev, arg) }

Rendering == { i \in DOMAIN trace : trace[i].ev \in {"render", "pdf"} }

TailoredYaml == with_suffix(cmd.output, ".yaml")

C22_TailorEffectsInOrder ==
    cmd.name = "tailor" =>
        LET analysis  == At("completion", "analyze_job_description")
            tailoring == At("completion", "tailor_profile")
            written   == At("write_yaml", PathStr(TailoredYaml))
        IN /\ Cardinality(analysis) <= 1 /\ Cardinality(tailoring) <= 1
           /\ Cardinality(written) <= 1
           /\ \A t \in tailoring :
                 /\ \E a \in analysis : a < t
                 /\ world.resp.kind \notin Failures
           /\ \A w \in written :
                 /\ \E a \in analysis : \E t \in tailoring : a < t /\ t < w
                 /\ ValidJson(world.resp2, "MasterProfile")
                 /\ mem.tailored_profile.val =
                        Construct("MasterProfile", world.resp2.payload)
           /\ \A r \in Rendering :
                 /\ \E w \in written : w < r
                 /\ world.io = "ok"
           /\ (Rendering # {} /\ world.render # "ok") =>
                 /\ exit = 1
                 /\ ValidOnDisk(files, TailoredYaml)
                 /\ files = [before EXCEPT ![TailoredYaml] = files[TailoredYaml]]

C22_Witness ==
    /\ cmd.name = "tailor"
    /\ cmd.output = TailoredPdf
    /\ world.render = "pdf_fail"
    /\ trace[Len(trace)] = Ev("pdf", "fail")
    /\ exit = 1
    /\ before[TailoredYaml].kind = "absent"
    /\ files[TailoredYaml].kind = "yaml"
    /\ files[TailoredPdf].kind = "absent"

(* C23: the vision fallback of bootstrap and update.  When the conversion   *)
(* of the PDF into images fails, with ImportError or any other exception,   *)
(* the command goes on: exactly one completion request is sent, after the   *)
(* failed conversion, in the text-only message form, and the command ends   *)
(* as the answer decides.  The conversion is attempted, and the multimodal  *)
(* form used, only for a .pdf source with the vision option on.             *)
ConversionFailed ==
    /\ cmd.name \in {"bootstrap", "update"}
    /\ world.conv \in {"ImportError", "Exception"}

Conversions == { i \in DOMAIN trace : trace[i].ev = "pdf_to_base64_images" }

C23_VisionFallbackNotFatal ==
    cmd.name \in {"bootstrap", "update"} =>
        /\ ConversionFailed =>
              /\ Cardinality(Conversions) = 1
              /\ Cardinality(Completions) = 1
              /\ \A c \in Conversions : \A r \in Completions : c < r
              /\ HasEv("messages", "text")
              /\ ~HasEv("messages", "multimodal")
              /\ (ValidJson(world.resp, "MasterProfile") /\ world.io = "ok") => exit = 0
        /\ Conversions # {} => (Source.suffix = ".pdf" /\ cmd.vision)
        /\ HasEv("messages", "multimodal") =>
              /\ Source.suffix = ".pdf" /\ cmd.vision
              /\ world.conv = "images"

C23_Witness ==
    /\ cmd.name = "bootstrap"
    /\ cmd.vision
    /\ world.conv = "ImportError"
    /\ trace = << Ev("extract", "ok"), Ev("pdf_to_base64_images", "ImportError"),
                  Ev("ResumeAgent", "init"), Ev("messages", "text"),
                  Ev("completion", "bootstrap_profile"),
                  Ev("write_yaml", PathStr(MasterPath)) >>
    /\ exit = 0
    /\ ValidOnDisk(files, MasterPath)

====
